---------------------------- MODULE Spec2Model ----------------------------
(***************************************************************************)
(* State-machine model of the CPU LLM inference session                    *)
(* (mediapipe/tasks/cc/genai/inference/c/llm_inference_engine_cpu.cc).     *)
(*                                                                         *)
(* Text is a sequence of one-character strings.  A worker thread is        *)
(* followed through start_llm_function and the recursion of                *)
(* next_token_function; the application is one caller thread that issues   *)
(* PredictAsync / PredictSync / Session_Delete.                            *)
(***************************************************************************)
EXTENDS Integers, Sequences, FiniteSets, TLC

(***************************************************************************)
(* Program constant and bounds of the model.                               *)
(***************************************************************************)
kCheckLastKChars == 10

\* How many predict calls (hence worker threads) one behaviour may hold.
MaxPredicts == 2

\* The largest Engine::max_num_tokens among the engines tried; the other
\* budget tried is three below it, which the longer prompts exceed.
MaxBudget == 5

\* Engine::max_num_tokens of the engines whose backend emits one character
\* per token: enough decode steps to fill the lookahead window and flush.
CharBudget == 13

\* How many entries a response context handed to CloseResponseContext may
\* hold, and how many times the application may call it on one context.
MaxEntries == 3

MaxCloses == 2

(***************************************************************************)
(* Text helpers (std::string operations used by the code).                 *)
(***************************************************************************)
Npos == -1

MinOf(S) == CHOOSE x \in S : \A y \in S : x <= y

\* std::string::find(needle): the lowest 0-based index of an occurrence, or
\* npos.  The code stores the size_t result in an int and compares it with
\* npos again, which maps npos to -1 and back, so -1 stands for npos.
Find(hay, needle) ==
  LET cands == { i \in 0..(Len(hay) - Len(needle)) :
                   SubSeq(hay, i + 1, i + Len(needle)) = needle }
  IN  IF cands = {} THEN Npos ELSE MinOf(cands)

\* std::string::substr(pos, n) and substr(pos).
Substr(s, pos, n) == SubSeq(s, pos + 1, IF pos + n > Len(s) THEN Len(s) ELSE pos + n)

SubstrFrom(s, pos) == SubSeq(s, pos + 1, Len(s))

\* The terminator of a C string; no vocabulary piece holds it.
NUL == "NUL"

\* snprintf(dst, size + 1, "%s", s.c_str()): the copy ends at the first NUL.
CStr(s) ==
  LET nuls == { i \in 1..Len(s) : s[i] = NUL }
  IN  IF nuls = {} THEN s ELSE SubSeq(s, 1, MinOf(nuls) - 1)

(***************************************************************************)
(* The Engine's collaborators: tokenizer, normalizer, model backend.       *)
(***************************************************************************)
TokenIds == 1..4

\* The ids of the one-character pieces.
CharTokenIds == 5..6

\* SentencePieceProcessor::IdToPiece: four pieces of several characters and
\* two of one character.
IdToPiece(id) ==
  CASE id = 1 -> <<"H", "i">>
    [] id = 2 -> <<"<", "/">>
    [] id = 3 -> <<"s", ">">>
    [] id = 5 -> <<"a">>
    [] id = 6 -> <<"b">>
    [] OTHER  -> <<"e", "x", "t", "r", "a">>

\* Normalizer::Normalize: a character map that is not the identity.
NormalizeChar(c) == IF c = "H" THEN "h" ELSE c

Normalize(s) == [i \in 1..Len(s) |-> NormalizeChar(s[i])]

\* A prompt the tokenizer rejects.
BadPrompt == <<"?">>

Prompts == { <<>>, <<"a">>, <<"a", "b">>, BadPrompt }

\* SentencePieceProcessor::Encode: one id per character; ok = FALSE on a
\* text it cannot encode.
Encode(text) ==
  IF \E i \in 1..Len(text) : text[i] = "?"
  THEN [ok |-> FALSE, ids |-> <<>>]
  ELSE [ok |-> TRUE, ids |-> [i \in 1..Len(text) |-> 1]]

StopConfigs ==
  { <<>>,
    << <<"<", "/", "s", ">">> >>,
    << <<"t", "r", "a">>, <<"e", "x">> >>,
    << <<"e", "x">>, <<"e">> >> }

\* struct LlmInferenceEngineCpu_Engine, immutable after construction; vocab
\* is the set of token ids its backend (llm) emits.
Engines ==
  [ stop_tokens    : StopConfigs,
    max_num_tokens : {MaxBudget - 3, MaxBudget},
    normalizer     : BOOLEAN,
    start_token_id : {2},
    vocab          : {TokenIds} ]

\* A stop sequence longer than the lookahead window plus one character.
LongStop == <<"a", "a", "b", "a", "a", "b", "a", "a", "b", "a", "a", "b">>

\* Engines whose backend emits single-character fragments.
CharEngines ==
  [ stop_tokens    : { <<>>, << LongStop >> },
    max_num_tokens : {CharBudget},
    normalizer     : {FALSE},
    start_token_id : {2},
    vocab          : {CharTokenIds} ]

(***************************************************************************)
(* State.                                                                  *)
(***************************************************************************)
Threads == 1..MaxPredicts

None == [none |-> TRUE]

VARIABLES
  engine,                 \* the Engine the Session points to
  prompt,                 \* Session::prompt
  max_num_output_tokens,  \* Session::max_num_output_tokens
  response_count,         \* Session::response_count
  last_10_char,           \* Session::last_10_char
  final_output,           \* Session::final_output
  cpu_callback,           \* which predict call installed Session::cpu_callback
  early_stop,             \* Session::early_stop
  work_id,                \* Session::work_id (0: no thread)
  threads,                \* the worker threads: pc and token_ids_per_step
  llm,                    \* the backend's input tokens (InitInputTokens)
  caller,                 \* where the application thread is
  sync_result,            \* what the last PredictSync returned
  fatal,                  \* the ABSL_LOG(FATAL) that ended the process
  npredicts,              \* predict calls so far
  generated,              \* history: fragments decoded since the last predict
  delivered,              \* history: response contexts handed to the callback
  calls,                  \* history: GetNextToken calls since the last predict
  hit,                    \* history: the first step a stop sequence was in the buffer
  response_context,       \* the LlmResponseContext the application holds
  heap,                   \* how often each of its allocations was passed to free
  closes,                 \* history: CloseResponseContext calls on it
  size_out,               \* what the last SizeInTokens call returned
  create_out              \* what the last CreateEngine / CreateSession call returned

vars == << engine, prompt, max_num_output_tokens, response_count, last_10_char,
           final_output, cpu_callback, early_stop, work_id, threads, llm, caller,
           sync_result, fatal, npredicts, generated, delivered, calls, hit,
           response_context, heap, closes, size_out, create_out >>

session == << prompt, max_num_output_tokens, response_count, last_10_char,
              final_output, cpu_callback, early_stop, work_id >>

history == << generated, delivered, calls, hit >>

\* The state of the API functions that touch no Session field.
boundary == << response_context, heap, closes, size_out, create_out >>

NULL == 0

\* A Session as value-initialised by its creator: CreateSession itself is
\* "Not implemented" in this file.
InitSession ==
  /\ prompt = <<>>
  /\ max_num_output_tokens = 0
  /\ response_count = 0
  /\ last_10_char = <<>>
  /\ final_output = <<>>
  /\ cpu_callback = 0
  /\ early_stop = FALSE
  /\ work_id = 0
  /\ threads = [t \in Threads |-> [pc |-> "none", tok |-> 0]]
  /\ llm = <<>>
  /\ caller = "idle"
  /\ sync_result = None
  /\ fatal = "none"
  /\ npredicts = 0
  /\ generated = <<>>
  /\ delivered = <<>>
  /\ calls = 0
  /\ hit = None

\* The application holds no response context and has called nothing.
InitBoundary ==
  /\ response_context = None
  /\ heap = << >>
  /\ closes = 0
  /\ size_out = None
  /\ create_out = None

Init == engine \in Engines /\ InitSession /\ InitBoundary

\* The same Session over an Engine whose backend emits single characters.
InitChars == engine \in CharEngines /\ InitSession /\ InitBoundary

(***************************************************************************)
(* next_token_function, lines 111-130: the stop-sequence loop and the      *)
(* choice of the text that is ready to be flushed.                         *)
(***************************************************************************)
\* ABSL_LOG(FATAL) aborts the process: nothing runs after it.
Alive == fatal = "none"

RECURSIVE StopLoopKeepsMatch(_, _, _)
\* A slip of line 117: the cut made one character into the match.
StopLoopKeepsMatch(buf, stops, k) ==
  IF k > Len(stops)
  THEN [found |-> FALSE, buf |-> buf]
  ELSE LET stop_index == Find(buf, stops[k])
       IN  IF stop_index # Npos
           THEN [found |-> TRUE, buf |-> Substr(buf, 0, stop_index + 1)]
           ELSE StopLoopKeepsMatch(buf, stops, k + 1)

RECURSIVE StopLoop(_, _, _)
\* for (stop_token : stop_tokens) { find; if found: truncate, break }
\* from the k-th configured sequence on.
StopLoop(buf, stops, k) ==
  IF k > Len(stops)
  THEN [found |-> FALSE, buf |-> buf]
  ELSE LET stop_index == Find(buf, stops[k])
       IN  IF stop_index # Npos
           THEN [found |-> TRUE, buf |-> Substr(buf, 0, stop_index)]
           ELSE StopLoop(buf, stops, k + 1)

\* A slip of lines 126-129: one character fewer than the window is kept.
FlushKeepsNine(stopped, buf) ==
  IF stopped
  THEN [ready |-> buf, rest |-> buf]
  ELSE IF Len(buf) > kCheckLastKChars - 1
       THEN [ready |-> Substr(buf, 0, Len(buf) - (kCheckLastKChars - 1)),
             rest  |-> SubstrFrom(buf, Len(buf) - (kCheckLastKChars - 1))]
       ELSE [ready |-> <<>>, rest |-> buf]

\* A slip of line 127: the flushed text taken from index 1.
FlushFromOne(stopped, buf) ==
  IF stopped
  THEN [ready |-> buf, rest |-> buf]
  ELSE IF Len(buf) > kCheckLastKChars
       THEN [ready |-> Substr(buf, 1, Len(buf) - kCheckLastKChars),
             rest  |-> SubstrFrom(buf, Len(buf) - kCheckLastKChars)]
       ELSE [ready |-> <<>>, rest |-> buf]

\* A slip of lines 126-129: the buffer is never cut before the final flush.
FlushOnlyAtEnd(stopped, buf) ==
  IF stopped
  THEN [ready |-> buf, rest |-> buf]
  ELSE [ready |-> <<>>, rest |-> buf]

\* ready_char and the new last_10_char.
Flush(stopped, buf) ==
  IF stopped
  THEN [ready |-> buf, rest |-> buf]
  ELSE IF Len(buf) > kCheckLastKChars
       THEN [ready |-> Substr(buf, 0, Len(buf) - kCheckLastKChars),
             rest  |-> SubstrFrom(buf, Len(buf) - kCheckLastKChars)]
       ELSE [ready |-> <<>>, rest |-> buf]

\* A slip of line 131: the ready text assigned instead of appended.
AssignReady(out, ready) == ready

\* final_output.append(ready_char)
AppendReady(out, ready) == out \o ready

\* The wrapper PredictAsync installs as cpu_callback: one malloc'ed entry,
\* response_count 1, done = early_stop as it is when the chunk is flushed.
ResponseContext(responses, done) ==
  [response_array |-> << CStr(responses) >>, response_count |-> 1, done |-> done]

\* token = IdToPiece(id), normalized when the Engine has a normalizer.
Piece(id) == IF engine.normalizer THEN Normalize(IdToPiece(id)) ELSE IdToPiece(id)

\* Whether some configured stop sequence occurs in the text.
SomeStopIn(buf) ==
  \E k \in 1..Len(engine.stop_tokens) : Find(buf, engine.stop_tokens[k]) # Npos

(***************************************************************************)
(* The worker thread.                                                      *)
(***************************************************************************)
\* start_llm_function up to its call of next_token_function.
Start(t) ==
  /\ Alive
  /\ threads[t].pc = "start"
  /\ LET enc        == Encode(prompt)
         prompt_ids == << engine.start_token_id >> \o enc.ids
     IN  \/ /\ ~enc.ok
            /\ fatal' = "Failed to encode input"
            /\ UNCHANGED << llm, max_num_output_tokens, threads >>
         \/ /\ enc.ok
            /\ fatal' = "Failed to process input tokens"
            /\ UNCHANGED << llm, max_num_output_tokens, threads >>
         \/ /\ enc.ok
            /\ llm' = prompt_ids
            /\ max_num_output_tokens' = engine.max_num_tokens - Len(prompt_ids)
            /\ threads' = [threads EXCEPT ![t].pc = "check"]
            /\ UNCHANGED fatal
  /\ UNCHANGED << boundary, engine, prompt, response_count, last_10_char, final_output,
                  cpu_callback, early_stop, work_id, caller, sync_result,
                  npredicts, history >>

\* next_token_function, lines 84-87: the counter test and the first
\* early_stop test.
Check(t) ==
  /\ Alive
  /\ threads[t].pc = "check"
  /\ response_count' = response_count + 1
  /\ threads' = [threads EXCEPT ![t].pc =
                   IF response_count < max_num_output_tokens /\ ~early_stop
                   THEN "get" ELSE "exited"]
  /\ UNCHANGED << boundary, engine, prompt, max_num_output_tokens, last_10_char,
                  final_output, cpu_callback, early_stop, work_id, llm, caller,
                  sync_result, fatal, npredicts, history >>

\* next_token_function, lines 89-98: GetNextToken, its status, and the second
\* early_stop test.
GetToken(t) ==
  /\ Alive
  /\ threads[t].pc = "get"
  /\ calls' = calls + 1
  /\ \/ /\ fatal' = "Failed to generate output"
        /\ UNCHANGED threads
     \/ \E id \in engine.vocab :
          /\ threads' = [threads EXCEPT ![t] =
                           IF early_stop THEN [pc |-> "exited", tok |-> 0]
                                         ELSE [pc |-> "emit", tok |-> id]]
          /\ UNCHANGED fatal
  /\ UNCHANGED << boundary, engine, session, llm, caller, sync_result, npredicts,
                  generated, delivered, hit >>

\* next_token_function, lines 100-135: the ceiling test, the decoded piece,
\* the stop-sequence loop, the flush and the callback (whose malloc may fail,
\* which is fatal).
Emit(t) ==
  /\ Alive
  /\ threads[t].pc = "emit"
  /\ LET ceiling == early_stop \/ response_count = max_num_output_tokens
         token   == Piece(threads[t].tok)
         buf     == last_10_char \o token
         loop    == StopLoop(buf, engine.stop_tokens, 1)
         stopped == ceiling \/ loop.found
         fl      == Flush(stopped, loop.buf)
     IN  /\ early_stop' = stopped
         /\ last_10_char' = fl.rest
         /\ final_output' = AppendReady(final_output, fl.ready)
         /\ \/ /\ delivered' = Append(delivered, ResponseContext(fl.ready, stopped))
               /\ threads' = [threads EXCEPT ![t] = [pc |-> "check", tok |-> 0]]
               /\ UNCHANGED fatal
            \/ /\ fatal' = "Failed to allocate result for cpu session"
               /\ UNCHANGED << delivered, threads >>
         /\ generated' = generated \o token
         /\ hit' = IF hit = None /\ SomeStopIn(buf)
                   THEN [gen |-> generated \o token, buf |-> buf,
                         cut |-> Len(loop.buf), calls |-> calls]
                   ELSE hit
  /\ UNCHANGED << boundary, engine, prompt, max_num_output_tokens, response_count,
                  cpu_callback, work_id, llm, caller, sync_result, npredicts,
                  calls >>

(***************************************************************************)
(* The C API called by the application thread.                             *)
(***************************************************************************)
Active(t) == threads[t].pc \in {"start", "check", "get", "emit"}

NoWorker == \A t \in Threads : ~Active(t)

\* LlmInferenceEngine_Session_PredictAsync: install the callback, reset the
\* per-request fields, create the worker.
PredictAsync(input) ==
  /\ npredicts < MaxPredicts
  /\ npredicts' = npredicts + 1
  /\ cpu_callback' = npredicts + 1
  /\ prompt' = input
  /\ final_output' = <<>>
  /\ last_10_char' = <<>>
  /\ early_stop' = FALSE
  /\ work_id' = npredicts + 1
  /\ threads' = [threads EXCEPT ![npredicts + 1] = [pc |-> "start", tok |-> 0]]
  /\ sync_result' = None
  /\ generated' = <<>>
  /\ delivered' = <<>>
  /\ calls' = 0
  /\ hit' = None
  /\ UNCHANGED << boundary, engine, max_num_output_tokens, response_count, llm, fatal >>

PredictAsyncCall(input) ==
  /\ Alive
  /\ caller = "idle"
  /\ PredictAsync(input)
  /\ UNCHANGED caller

\* LlmInferenceEngine_Session_PredictSync up to its pthread_join.
PredictSyncCall(input) ==
  /\ Alive
  /\ caller = "idle"
  /\ PredictAsync(input)
  /\ caller' = "sync_join"

\* A slip: the caller goes on without waiting for the thread.
JoinedNoWait(wid) == wid \in Threads

\* pthread_join(work_id) has returned: the joined thread has exited.
Joined(wid) == wid \in Threads /\ threads[wid].pc = "exited"

\* LlmInferenceEngine_Session_PredictSync from the return of pthread_join.
PredictSyncReturn ==
  /\ Alive
  /\ caller = "sync_join"
  /\ Joined(work_id)
  /\ work_id' = 0
  /\ \/ /\ sync_result' = ResponseContext(final_output, TRUE)
        /\ caller' = "idle"
        /\ UNCHANGED fatal
     \/ /\ fatal' = "Failed to allocate result for cpu session"
        /\ UNCHANGED << sync_result, caller >>
  /\ UNCHANGED << boundary, engine, prompt, max_num_output_tokens, response_count,
                  last_10_char, final_output, cpu_callback, early_stop, threads,
                  llm, npredicts, history >>

\* LlmInferenceEngine_Session_Delete: the destructor's pthread_join begins.
DeleteCall ==
  /\ Alive
  /\ caller = "idle"
  /\ caller' = "delete_join"
  /\ UNCHANGED << boundary, engine, session, threads, llm, sync_result, fatal, npredicts,
                  history >>

\* ~LlmInferenceEngineCpu_Session: pthread_join(work_id) returns and the
\* Session is freed.  Joining the handle 0 (no thread was created, or
\* PredictSync cleared it) is undefined: it returns an error or crashes.
DeleteReturn ==
  /\ Alive
  /\ caller = "delete_join"
  /\ \/ /\ Joined(work_id)
        /\ caller' = "deleted"
        /\ UNCHANGED fatal
     \/ /\ work_id = 0
        /\ caller' = "deleted"
        /\ UNCHANGED fatal
     \/ /\ work_id = 0
        /\ fatal' = "pthread_join of an invalid thread"
        /\ UNCHANGED caller
  /\ UNCHANGED << boundary, engine, session, threads, llm, sync_result, npredicts, history >>

(***************************************************************************)
(* Specifications.  Spec: the application may call at any time, as the     *)
(* code allows.  SpecSeq: the application keeps the single-flight          *)
(* discipline, issuing a predict only when no worker is running.  SpecDone: *)
(* the application issues a predict once it has seen the earlier one       *)
(* complete through the API: the done = true callback, or PredictSync's    *)
(* return.                                                                 *)
(***************************************************************************)
Next ==
  \/ \E input \in Prompts : PredictAsyncCall(input)
  \/ \E input \in Prompts : PredictSyncCall(input)
  \/ PredictSyncReturn
  \/ DeleteCall
  \/ DeleteReturn
  \/ \E t \in Threads : Start(t)
  \/ \E t \in Threads : Check(t)
  \/ \E t \in Threads : GetToken(t)
  \/ \E t \in Threads : Emit(t)

Spec == Init /\ [][Next]_vars

\* A predict call of an application that waits for the worker to finish.
PredictAsyncCallSeq(input) == NoWorker /\ PredictAsyncCall(input)

PredictSyncCallSeq(input) == NoWorker /\ PredictSyncCall(input)

NextSeq ==
  \/ \E input \in Prompts : PredictAsyncCallSeq(input)
  \/ \E input \in Prompts : PredictSyncCallSeq(input)
  \/ PredictSyncReturn
  \/ DeleteCall
  \/ DeleteReturn
  \/ \E t \in Threads : Start(t)
  \/ \E t \in Threads : Check(t)
  \/ \E t \in Threads : GetToken(t)
  \/ \E t \in Threads : Emit(t)

SpecSeq == Init /\ [][NextSeq]_vars

\* The single-flight application over the single-character engines.
SpecChars == InitChars /\ [][NextSeq]_vars

\* The callback has been invoked with done = true since the last predict.
DoneDelivered == Len(delivered) >= 1 /\ delivered[Len(delivered)].done

\* What the application can observe of the earlier predict's completion.
SeenComplete == npredicts = 0 \/ DoneDelivered \/ sync_result # None

PredictAsyncCallDone(input) == SeenComplete /\ PredictAsyncCall(input)

PredictSyncCallDone(input) == SeenComplete /\ PredictSyncCall(input)

NextDone ==
  \/ \E input \in Prompts : PredictAsyncCallDone(input)
  \/ \E input \in Prompts : PredictSyncCallDone(input)
  \/ PredictSyncReturn
  \/ DeleteCall
  \/ DeleteReturn
  \/ \E t \in Threads : Start(t)
  \/ \E t \in Threads : Check(t)
  \/ \E t \in Threads : GetToken(t)
  \/ \E t \in Threads : Emit(t)

SpecDone == Init /\ [][NextDone]_vars

(***************************************************************************)
(* Properties.                                                             *)
(***************************************************************************)
IsPrefix(p, s) == Len(p) <= Len(s) /\ SubSeq(s, 1, Len(p)) = p

RECURSIVE ConcatChunks(_)
\* The texts of the response contexts, concatenated in delivery order.
ConcatChunks(rs) ==
  IF rs = <<>> THEN <<>>
  ELSE Head(rs).response_array[1] \o ConcatChunks(Tail(rs))

\* prompt_ids.size() in start_llm_function: the start token and the prompt's ids.
EncodedLen(text) == Len(Encode(text).ids) + 1

\* The worker of the latest predict call is inside the decode loop of
\* next_token_function.
Generating == npredicts > 0 /\ threads[npredicts].pc \in {"check", "get", "emit"}

\* The worker of the latest predict call has returned.
Ended == npredicts > 0 /\ threads[npredicts].pc = "exited"

\* The latest predict call's prompt encodes and leaves room in the budget.
ValidRequest == Encode(prompt).ok /\ engine.max_num_tokens - EncodedLen(prompt) > 0

\* C1: for a prompt shorter than the token budget, the chunks the worker
\* hands to the predict callback, concatenated in delivery order, are the
\* single entry PredictSync returns for the same token stream.  (The worker
\* does not look at which callback is installed: the chunks of the
\* synchronous run are those an asynchronous run of the same stream delivers.)
C1_ChunksEqualSyncEntry ==
  (sync_result # None /\ ValidRequest) =>
     sync_result.response_array = << ConcatChunks(delivered) >>

\* A synchronous predict that returned text flushed in several non-empty chunks.
C1_Witness ==
  /\ sync_result # None
  /\ ValidRequest
  /\ Len(sync_result.response_array[1]) > kCheckLastKChars
  /\ Cardinality({ i \in 1..Len(delivered) : delivered[i].response_array[1] # <<>> }) >= 2

MinStart(buf, stops) ==
  MinOf({ Find(buf, stops[k]) : k \in 1..Len(stops) } \ {Npos})

\* C3: when stop sequences occur in the trailing buffer, the buffer is cut
\* at the lowest starting index among all their occurrences.
C3_EarliestMatchWins ==
  hit # None => hit.cut = MinStart(hit.buf, engine.stop_tokens)

\* C4: the callback sees done = true only on its last invocation, and a
\* generation of a valid request does not end without it.
C4_ExactlyOneDoneLast ==
  /\ \A i \in 1..(Len(delivered) - 1) : ~delivered[i].done
  /\ (Ended /\ ValidRequest) =>
        (Len(delivered) >= 1 /\ delivered[Len(delivered)].done)

\* C5: with no stop sequence, a finished generation made exactly
\* budget - encoded prompt length GetNextToken calls.
C5_ExactlyBudgetSteps ==
  (Ended /\ engine.stop_tokens = <<>> /\ Encode(prompt).ok
     /\ engine.max_num_tokens - EncodedLen(prompt) >= 0) =>
        calls = engine.max_num_tokens - EncodedLen(prompt)

\* C6: PredictSync returns after its worker has finished, with one entry,
\* done = true, the entry being the whole accumulated output (all the
\* text generated when no stop sequence cut it).
C6_SyncReturnsWholeOutput ==
  sync_result # None =>
    /\ threads[npredicts].pc = "exited"
    /\ sync_result.response_count = 1
    /\ Len(sync_result.response_array) = 1
    /\ sync_result.done
    /\ sync_result.response_array[1] = final_output
    /\ (hit = None => sync_result.response_array[1] = generated)

\* A synchronous predict returned after the worker flushed three chunks or
\* more, the last of them holding the text kept back in the trailing buffer.
C6_Witness ==
  /\ sync_result # None
  /\ Len(delivered) >= 3
  /\ hit = None
  /\ Len(generated) > kCheckLastKChars
  /\ delivered[Len(delivered)].response_array[1] # <<>>

\* C7: at most one worker is running decode steps on the Session.
C7_SingleFlight ==
  Cardinality({ t \in Threads : Active(t) }) <= 1

\* C8: once Session_Delete has returned, no worker is running.
C8_NoWorkerAfterDelete ==
  caller = "deleted" => NoWorker

\* C9: a request whose encoded prompt leaves no room in the budget does not
\* reach the decode loop.
C9_PromptTooLongRejected ==
  (npredicts > 0 /\ Encode(prompt).ok
     /\ engine.max_num_tokens - EncodedLen(prompt) <= 0) =>
        threads[npredicts].pc \notin {"check", "get", "emit"}

\* C10: a GetNextToken failure does not abort the process.
C10_BackendFailureNotFatal ==
  fatal # "Failed to generate output"

(***************************************************************************)
(* The API functions that touch no Session field: CloseResponseContext on  *)
(* a response context the application holds, and the two constructors.     *)
(***************************************************************************)

\* The pointers of a response context: its malloc'ed array and the malloc'ed
\* string in the array's i-th cell.
ArrayPtr == 1

EntryPtr(i) == ArrayPtr + i

\* A slip of lines 175-176: the array and the count are left as they were.
CloseKeepsFields ==
  /\ Alive
  /\ response_context # None
  /\ closes < MaxCloses
  /\ heap' = [p \in DOMAIN heap |->
               IF \/ \E i \in 1..response_context.response_count : p = EntryPtr(i)
                  \/ p = response_context.response_array
               THEN heap[p] + 1 ELSE heap[p]]
  /\ closes' = closes + 1
  /\ UNCHANGED << response_context, size_out, create_out, engine, session, threads,
                  llm, caller, sync_result, fatal, npredicts, history >>

\* LlmInferenceEngine_CloseResponseContext: free each of the response_count
\* entries, free the array (free(nullptr) does nothing), clear both fields.
CloseResponseContext ==
  /\ Alive
  /\ response_context # None
  /\ closes < MaxCloses
  /\ heap' = [p \in DOMAIN heap |->
               IF \/ \E i \in 1..response_context.response_count : p = EntryPtr(i)
                  \/ p = response_context.response_array
               THEN heap[p] + 1 ELSE heap[p]]
  /\ response_context' = [response_context EXCEPT !.response_array = NULL,
                                                   !.response_count = 0]
  /\ closes' = closes + 1
  /\ UNCHANGED << size_out, create_out, engine, session, threads, llm, caller,
                  sync_result, fatal, npredicts, history >>

\* What the application passes to the constructors, and what its handle
\* slot (*engine_out, *session_out) holds before the call.
ModelSettings == {"model_a", "model_b"}

SessionConfigs == {"config_a", "config_b"}

HandleSlots == {"null", "uninitialized"}

\* A slip of lines 182-183: success reported and a handle stored.
CreateEngineSucceeds(model_settings, slot) ==
  /\ Alive
  /\ create_out' = [fn |-> "CreateEngine", arg |-> model_settings, ret |-> 0,
                     error_msg |-> None, slot_before |-> slot, slot_after |-> "engine"]
  /\ UNCHANGED << response_context, heap, closes, size_out, engine, session, threads,
                  llm, caller, sync_result, fatal, npredicts, history >>

\* LlmInferenceEngine_CreateEngine: *error_msg = strdup("Not implemented");
\* return 12.  engine_out is not written.
CreateEngine(model_settings, slot) ==
  /\ Alive
  /\ create_out' = [fn |-> "CreateEngine", arg |-> model_settings, ret |-> 12,
                     error_msg |-> [text |-> "Not implemented", owner |-> "caller"],
                     slot_before |-> slot, slot_after |-> slot]
  /\ UNCHANGED << response_context, heap, closes, size_out, engine, session, threads,
                  llm, caller, sync_result, fatal, npredicts, history >>

\* LlmInferenceEngine_CreateSession: the same stub; session_out is not written.
CreateSession(session_config, slot) ==
  /\ Alive
  /\ create_out' = [fn |-> "CreateSession", arg |-> session_config, ret |-> 12,
                     error_msg |-> [text |-> "Not implemented", owner |-> "caller"],
                     slot_before |-> slot, slot_after |-> slot]
  /\ UNCHANGED << response_context, heap, closes, size_out, engine, session, threads,
                  llm, caller, sync_result, fatal, npredicts, history >>

\* The application holds a response context of n malloc'ed entries in a
\* malloc'ed array, none of them freed yet.
InitContext ==
  /\ engine \in Engines
  /\ InitSession
  /\ \E n \in 0..MaxEntries, done \in BOOLEAN :
       /\ response_context = [response_array |-> ArrayPtr, response_count |-> n,
                              done |-> done]
       /\ heap = [p \in 1..(n + 1) |-> 0]
  /\ closes = 0
  /\ size_out = None
  /\ create_out = None

NextBoundary ==
  \/ CloseResponseContext
  \/ \E ms \in ModelSettings, slot \in HandleSlots : CreateEngine(ms, slot)
  \/ \E sc \in SessionConfigs, slot \in HandleSlots : CreateSession(sc, slot)

SpecBoundary == InitContext /\ [][NextBoundary]_vars

\* C13: after CloseResponseContext on a response context with n entries the
\* entry count is 0, the array reference is empty, and each of the n entries
\* and the array has been freed exactly once; this stays so after a second
\* call on the same context (nothing is freed twice).
C13_CloseReleasesOnce ==
  closes >= 1 =>
    /\ response_context.response_count = 0
    /\ response_context.response_array = NULL
    /\ \A p \in DOMAIN heap : heap[p] = 1

\* CloseResponseContext was called twice on a context of several entries.
C13_Witness == closes >= 2 /\ Len(heap) >= 3

\* C15: CreateEngine and CreateSession, whatever they are given, return the
\* fixed non-zero status 12 and a caller-owned "Not implemented" message,
\* and leave the caller's handle slot as it was.
C15_ConstructorsNotImplemented ==
  create_out # None =>
    /\ create_out.ret # 0
    /\ create_out.ret = 12
    /\ create_out.error_msg = [text |-> "Not implemented", owner |-> "caller"]
    /\ create_out.slot_after = create_out.slot_before

\* CreateSession was called with an uninitialized handle slot.
C15_Witness ==
  /\ create_out # None
  /\ create_out.fn = "CreateSession"
  /\ create_out.slot_before = "uninitialized"

\* The texts the application asks the size of.
SizeInputs == { <<"a", "b">>, BadPrompt }

\* A slip: the text is stored in the Session as PredictAsync stores a prompt.
SizeInTokensStoresPrompt(input) ==
  /\ Alive
  /\ caller = "idle"
  /\ prompt' = input
  /\ size_out' = IF Encode(input).ok
                 THEN [input |-> input, ret |-> Len(Encode(input).ids),
                       error_msg |-> None]
                 ELSE [input |-> input, ret |-> -1,
                       error_msg |-> [text |-> "encode error", owner |-> "caller"]]
  /\ UNCHANGED << response_context, heap, closes, create_out, engine,
                  max_num_output_tokens, response_count, last_10_char, final_output,
                  cpu_callback, early_stop, work_id, threads, llm, caller,
                  sync_result, fatal, npredicts, history >>

\* LlmInferenceEngine_Session_SizeInTokens, called by the application thread
\* while it is not blocked in a join: Encode(input) into a local vector; on
\* failure *error_msg = strdup(status.ToString()) and -1, otherwise
\* output_ids.size() with *error_msg left alone.
SizeInTokens(input) ==
  /\ Alive
  /\ caller = "idle"
  /\ size_out' = IF Encode(input).ok
                 THEN [input |-> input, ret |-> Len(Encode(input).ids),
                       error_msg |-> None]
                 ELSE [input |-> input, ret |-> -1,
                       error_msg |-> [text |-> "encode error", owner |-> "caller"]]
  /\ UNCHANGED << response_context, heap, closes, create_out, engine, session,
                  threads, llm, caller, sync_result, fatal, npredicts, history >>

\* The single-flight application, which may also ask for sizes at any time.
NextSize ==
  \/ NextSeq
  \/ \E input \in SizeInputs : SizeInTokens(input)

SpecSize == Init /\ [][NextSize]_vars

\* C14: a SizeInTokens call returns the length of Encode(text) when the text
\* encodes, and -1 with an error message when it does not, and in both
\* cases leaves every field of the Session as it was, also while a worker
\* is generating.
C14_SizeInTokensFrame ==
  [][ size_out' # size_out =>
        /\ UNCHANGED session
        /\ IF Encode(size_out'.input).ok
           THEN /\ size_out'.ret = Len(Encode(size_out'.input).ids)
                /\ size_out'.error_msg = None
           ELSE /\ size_out'.ret = -1
                /\ size_out'.error_msg # None ]_vars

\* A size was asked for, and refused, while a worker was decoding.
C14_Witness ==
  /\ Generating /\ Alive /\ calls > 0
  /\ size_out # None
  /\ size_out.ret = -1

\* The response context most recently handed to the predict callback.
LastDelivered == delivered[Len(delivered)]

\* C11: with no stop sequence configured and a backend emitting
\* single-character fragments, a step before the final flush that delivers a
\* non-empty chunk leaves at least kCheckLastKChars characters in the
\* trailing buffer, and the final flush (the done = true chunk) delivers the
\* whole trailing buffer, so that the accumulated output is all the text
\* generated.
C11_WindowKeptUntilFinalFlush ==
  (engine.stop_tokens = <<>> /\ engine.vocab = CharTokenIds /\ delivered # <<>>) =>
     /\ (~LastDelivered.done /\ LastDelivered.response_array[1] # <<>>) =>
           Len(last_10_char) >= kCheckLastKChars
     /\ LastDelivered.done =>
           /\ LastDelivered.response_array[1] = last_10_char
           /\ final_output = generated

\* A non-empty chunk was flushed before the final one, and the final flush
\* then delivered a full window.
C11_Witness ==
  /\ engine.stop_tokens = <<>> /\ engine.vocab = CharTokenIds
  /\ Len(delivered) > kCheckLastKChars + 1
  /\ delivered[kCheckLastKChars + 1].response_array[1] # <<>>
  /\ ~delivered[kCheckLastKChars + 1].done
  /\ LastDelivered.done
  /\ Len(LastDelivered.response_array[1]) > kCheckLastKChars

\* C12: a started generation runs on until its worker returns, having
\* reached the output-token ceiling or a stop-sequence match, and makes at
\* most max_num_output_tokens GetNextToken calls: a worker inside the decode
\* loop is never cut off before it returns, a worker that returned from a
\* valid request on a fresh Session reached the ceiling or a stop match, and
\* the calls made never exceed the ceiling.
C12_GenerationRunsToStop ==
  /\ Generating => Alive
  /\ (Ended /\ ValidRequest /\ npredicts = 1) =>
        (early_stop /\ (hit # None \/ response_count >= max_num_output_tokens))
  /\ (Generating \/ Ended) => (calls = 0 \/ calls <= max_num_output_tokens)

\* C16: a predict call on a Session whose earlier generation has completed
\* behaves as on a fresh Session.  On a fresh Session the worker of a valid
\* request returns only after delivering a done = true chunk, at a stop
\* match or after max_num_tokens - prompt_ids.size() decode steps, so the
\* same holds of the later generations of a reused Session.
C16_ReusedSessionAsFresh ==
  (npredicts >= 2 /\ Ended /\ ValidRequest) =>
     /\ delivered # <<>>
     /\ LastDelivered.done
     /\ hit # None \/ calls = engine.max_num_tokens - EncodedLen(prompt)

\* C17: in every reachable state neither the accumulated final output nor
\* any chunk handed to the callback contains a configured stop sequence,
\* whatever the length of the sequence and the fragmentation of the text (a
\* sequence split across a flush boundary would be whole in final_output
\* once its last part is flushed).
C17_NoStopSequenceFlushed ==
  /\ ~SomeStopIn(final_output)
  /\ \A i \in 1..Len(delivered) : ~SomeStopIn(delivered[i].response_array[1])

\* C18: once the application has received the done = true chunk of a
\* generation and issued a new predict call, the worker of the earlier
\* generation makes no further GetNextToken call and delivers no further
\* chunk, and no two workers are inside a decode step together.
C18_EarlierWorkerStaysStopped ==
  /\ \A t \in Threads : t < npredicts => threads[t].pc \notin {"get", "emit"}
  /\ Cardinality({ t \in Threads : threads[t].pc \in {"get", "emit"} }) <= 1

\* The part of the trailing buffer not yet handed out: the final flush
\* (lines 123-125) hands out the whole buffer and leaves it in place.
Unflushed == IF early_stop THEN <<>> ELSE last_10_char

\* C19: while no stop sequence has matched, the accumulated final output
\* followed by the unflushed part of the trailing buffer is the
\* concatenation, in order, of all the fragments decoded so far; once the
\* generation has ended at the ceiling the final output alone is that
\* concatenation.
C19_TextConserved ==
  hit = None =>
    /\ final_output \o Unflushed = generated
    /\ early_stop => final_output = generated

\* Mid-generation, after a flush that left a window behind.
C19_Witness ==
  /\ hit = None
  /\ ~early_stop
  /\ final_output # <<>>
  /\ Len(last_10_char) = kCheckLastKChars
  /\ Generating /\ Alive

\* The lengths of the fragments the tokenizer can return.
PieceLens == { Len(IdToPiece(id)) : id \in TokenIds \cup CharTokenIds }

MaxPieceLen == CHOOSE n \in PieceLens : \A m \in PieceLens : m <= n

\* C20: the trailing buffer never holds more than kCheckLastKChars
\* characters plus one fragment, and after a decode step that does not end
\* the generation it holds at most kCheckLastKChars.
C20_TrailingBufferBounded ==
  /\ Len(last_10_char) <= kCheckLastKChars + MaxPieceLen
  /\ ~early_stop => Len(last_10_char) <= kCheckLastKChars

\* A final step appended a longest fragment to a full window.
C20_Witness ==
  /\ early_stop
  /\ Len(last_10_char) = kCheckLastKChars + MaxPieceLen

=============================================================================
